---------------------------- MODULE Spec2Model ----------------------------
(***************************************************************************)
(* Model of the model_registry update run (src/src/model_registry/main.py) *)
(* and of the adapters' public_models pipelines                            *)
(* (src/src/model_registry/providers/*.py).                                *)
(*                                                                         *)
(* Python strings that are lowercased or compared are sequences of code    *)
(* points, so that str.lower() and the ordering of str are computed, not   *)
(* assumed.  A ModelEntry is a record of its five fields.  The registry    *)
(* file is its raw text, abstracted to: whether it parses as a JSON array, *)
(* the array's items, and its line endings.                                *)
(***************************************************************************)
EXTENDS Integers, Sequences, FiniteSets, TLC

(***************************************************************************)
(* Bounds of the model.                                                    *)
(***************************************************************************)
\* largest number of items of a registry file that exists before the first run
MaxFileLen == 2
\* largest number of raw vendor records returned to one run, all providers together
MaxFetch == 2
\* the largest attempt count given to retry()
MaxAttempts == 3
\* the largest number of page requests of one paginated fetch
MaxPages == 3
\* the largest number of models on one page
MaxPageModels == 2
\* the largest number of models given to build_atom_feed
MaxFeed == 3
\* the largest number of models saved and loaded back
MaxSaved == 2

(***************************************************************************)
(* Strings.                                                                *)
(***************************************************************************)
\* The names are abbreviated; the abbreviations keep the order and the letter
\* case of the names: "a" < "gpt" < "openai" < "openrouter" < "unknown", and
\* "GPT" = "gpt" once lowercased.
\* "openai"
s_openai == <<111, 97>>
\* "openrouter"
s_openrouter == <<111, 114>>
\* "unknown"
s_unknown == <<117>>
\* "gpt"
s_gpt == <<103>>
\* "GPT"
s_GPT == <<71>>
\* "a"
s_a == <<97>>
\* ""
s_empty == <<>>
\* "OpenAI"
s_OPENAI == <<79, 65>>

\* str.lower() on one ASCII character
LowerChar(c) == IF c >= 65 /\ c <= 90 THEN c + 32 ELSE c

\* str.lower()
Lower(s) == [i \in DOMAIN s |-> LowerChar(s[i])]

\* s < t for Python str: lexicographic on code points, a proper prefix is smaller
StrLess(s, t) ==
    \E k \in 1..(Len(s) + 1) :
        /\ k <= Len(t)
        /\ \A j \in 1..(k - 1) : s[j] = t[j]
        /\ (k = Len(s) + 1 \/ s[k] < t[k])

\* a < b for Python tuples of three str
TupleLess(a, b) ==
    \/ StrLess(a[1], b[1])
    \/ a[1] = b[1] /\ StrLess(a[2], b[2])
    \/ a[1] = b[1] /\ a[2] = b[2] /\ StrLess(a[3], b[3])

(***************************************************************************)
(* Dates: a date is <<year, month, day>>, its text is YYYY-MM-DD.           *)
(***************************************************************************)
s_hyphen == <<45>>

\* \d of re (ASCII digits), and int() of a str of digits
IsDigit(c) == c >= 48 /\ c <= 57
AllDigits(s) == \A i \in DOMAIN s : IsDigit(s[i])
RECURSIVE ParseInt(_)
ParseInt(s) ==
    IF s = <<>> THEN 0
    ELSE ParseInt(SubSeq(s, 1, Len(s) - 1)) * 10 + (s[Len(s)] - 48)

\* the str of n written with two and with four digits
Digits2(n) == <<48 + ((n \div 10) % 10), 48 + (n % 10)>>
Digits4(n) == Digits2(n \div 100) \o Digits2(n % 100)

IsLeap(y) == y % 4 = 0 /\ (y % 100 # 0 \/ y % 400 = 0)
DaysInMonth(y, m) ==
    IF m = 2 THEN (IF IsLeap(y) THEN 29 ELSE 28)
    ELSE IF m \in {4, 6, 9, 11} THEN 30 ELSE 31

\* y, m, d are a calendar date of datetime.date
ValidDate(y, m, d) ==
    y \in 1..9999 /\ m \in 1..12 /\ d >= 1 /\ d <= DaysInMonth(y, m)

\* the shape \d{4}-\d{2}-\d{2} of a str of ten characters
IsoShape(s) ==
    /\ Len(s) = 10
    /\ AllDigits(SubSeq(s, 1, 4)) /\ SubSeq(s, 5, 5) = s_hyphen
    /\ AllDigits(SubSeq(s, 6, 7)) /\ SubSeq(s, 8, 8) = s_hyphen
    /\ AllDigits(SubSeq(s, 9, 10))

\* the digits of n without leading zeros
RECURSIVE DigitsOf(_)
DigitsOf(n) == IF n < 10 THEN <<48 + n>> ELSE DigitsOf(n \div 10) \o <<48 + (n % 10)>>

\* a text of the date whose numbers are not padded with zeros
IsoformatNoPadding(d) ==
    DigitsOf(d[1]) \o s_hyphen \o DigitsOf(d[2]) \o s_hyphen \o DigitsOf(d[3])

\* date.isoformat(): what model_dump(mode='json') makes of a date
isoformat(d) == Digits4(d[1]) \o s_hyphen \o Digits2(d[2]) \o s_hyphen \o Digits2(d[3])

\* the numbers of a text of the shape YYYY-MM-DD
date_numbers(s) ==
    <<ParseInt(SubSeq(s, 1, 4)), ParseInt(SubSeq(s, 6, 7)), ParseInt(SubSeq(s, 9, 10))>>

\* the text is a date for the release_date field of ModelEntry
IsDateText(s) ==
    IsoShape(s) /\ ValidDate(date_numbers(s)[1], date_numbers(s)[2], date_numbers(s)[3])

(***************************************************************************)
(* ModelEntry (schemas.py) and the records of the model.                   *)
(***************************************************************************)
d_2023 == <<2023, 3, 14>>
d_2024 == <<2024, 1, 1>>

ModelEntry(provider, developer, model_id, release_date, status) ==
    [provider |-> provider, developer |-> developer, model_id |-> model_id,
     release_date |-> release_date, status |-> status]

\* OpenAIProvider.normalize of {"id": "gpt", "created": ...}
O1 == ModelEntry(s_openai, s_openai, s_gpt, d_2023, "active")
\* the same vendor record with another `created`
O1d == ModelEntry(s_openai, s_openai, s_gpt, d_2024, "active")
\* OpenAIProvider.normalize of {"id": "GPT", ...}
O2 == ModelEntry(s_openai, s_openai, s_GPT, d_2023, "active")
\* OpenRouterProvider.normalize of {"id": "gpt", "name": "OpenAI: gpt", ...}
R1 == ModelEntry(s_openrouter, s_openai, s_gpt, d_2023, "active")
\* the same vendor record with "deprecated" in its description
R1s == ModelEntry(s_openrouter, s_openai, s_gpt, d_2023, "deprecated")
\* OpenRouterProvider.normalize of {"id": "gpt", "name": "gpt", ...}
R2 == ModelEntry(s_openrouter, s_unknown, s_gpt, d_2023, "active")
\* OpenRouterProvider.normalize of {"id": "a", "name": "a", ...}
R3 == ModelEntry(s_openrouter, s_unknown, s_a, d_2023, "active")

\* the entries an adapter of the given slug can produce in this model
EntriesOf(slug) ==
    IF slug = s_openai THEN {O1, O1d, O2} ELSE {R1, R1s, R2, R3}

AllEntries == EntriesOf(s_openai) \cup EntriesOf(s_openrouter)

(***************************************************************************)
(* The registry file.                                                      *)
(***************************************************************************)
\* model.model_dump(mode='json'): the JSON object of one entry
model_dump(m) ==
    [provider |-> m.provider, developer |-> m.developer, model_id |-> m.model_id,
     release_date |-> isoformat(m.release_date), status |-> m.status]

\* a JSON object of the file without the "status" key
ItemNoStatus ==
    [provider |-> s_openai, developer |-> s_openai, model_id |-> s_gpt,
     release_date |-> isoformat(d_2023)]

\* a JSON object of the file whose model_id is ""
ItemEmptyId ==
    [provider |-> s_openrouter, developer |-> s_unknown, model_id |-> s_empty,
     release_date |-> isoformat(d_2023), status |-> "active"]

\* the JSON objects a registry file can hold before the first run
FileItems == {model_dump(m) : m \in {O1, O1d, R1, R3}} \cup {ItemNoStatus, ItemEmptyId}

\* a text: "" (json = "empty"), text that is no JSON (json = "garbage"), or a
\* JSON array of objects, laid out as json.dumps(..., indent=2) lays it out, with
\* the given line endings (an array without items has no line ending)
Text(json, items, eol) == [json |-> json, items |-> items, eol |-> eol]

EmptyText == Text("empty", <<>>, "lf")
GarbageText == Text("garbage", <<>>, "lf")

\* json.dumps(new_models_as_dicts, indent=2)
json_dumps(dicts) == Text("array", dicts, "lf")

\* a comparison of the texts as they are
ReplaceNothing(text) == text

\* str.replace('\r\n', '\n')
ReplaceCRLF(text) == [text EXCEPT !.eol = "lf"]

NoFile == [exists |-> FALSE, text |-> EmptyText]
FileWith(text) == [exists |-> TRUE, text |-> text]

\* ModelEntry(**item): validation of one JSON object of the file
ValidItem(item) == Len(item.model_id) >= 1 /\ IsDateText(item.release_date)

\* ModelEntry(**item) for a valid item: status defaults to "active"
EntryOfItem(item) ==
    ModelEntry(item.provider, item.developer, item.model_id, date_numbers(item.release_date),
               IF "status" \in DOMAIN item THEN item.status ELSE "active")

\* a load that gives up on the whole file at the first invalid entry
LoadAllOrNothing(f) ==
    IF ~f.exists THEN <<>>
    ELSE IF f.text.json # "array" THEN <<>>
    ELSE IF \E i \in DOMAIN f.text.items : ~ValidItem(f.text.items[i]) THEN <<>>
    ELSE [i \in DOMAIN f.text.items |-> EntryOfItem(f.text.items[i])]

\* load_existing_models(path)
load_existing_models(f) ==
    IF ~f.exists THEN <<>>
    ELSE IF f.text.json # "array" THEN <<>>
    ELSE LET valid == SelectSeq(f.text.items, ValidItem)
         IN  [i \in DOMAIN valid |-> EntryOfItem(valid[i])]

\* save_models(path, models): the file after a successful write
save_models(models) ==
    FileWith(Text("array", [i \in DOMAIN models |-> model_dump(models[i])], "lf"))

(***************************************************************************)
(* The merge engine of main().                                             *)
(***************************************************************************)
\* a key that leaves the developer and the provider out
IdentityKeyModelIdOnly(m) == <<m.model_id>>

\* the key of combined_models_map
IdentityKey(m) == <<m.developer, m.model_id, m.provider>>

\* a Python dict, in insertion order: a sequence of key/value pairs with distinct keys
DictKeys(d) == {d[i].key : i \in DOMAIN d}

\* a store that adds a pair whether or not the key is present
DictAppend(d, k, v) == Append(d, [key |-> k, value |-> v])

\* d[k] = v
DictSet(d, k, v) ==
    IF k \in DictKeys(d)
    THEN [i \in DOMAIN d |-> IF d[i].key = k THEN [key |-> k, value |-> v] ELSE d[i]]
    ELSE Append(d, [key |-> k, value |-> v])

\* list(d.values())
DictValues(d) == [i \in DOMAIN d |-> d[i].value]

\* for model in existing_models_list: combined_models_map[key] = model
RECURSIVE SeedExisting(_, _)
SeedExisting(models, n) ==
    IF n = 0 THEN <<>>
    ELSE DictSet(SeedExisting(models, n - 1), IdentityKey(models[n]), models[n])

\* an iteration that stores the fetched model whether or not its key is present
MergeOneOverwrite(acc, model) ==
    [map |-> DictSet(acc.map, IdentityKey(model), model),
     added_count |-> IF IdentityKey(model) \notin DictKeys(acc.map)
                     THEN acc.added_count + 1 ELSE acc.added_count]

\* an iteration that counts the fetched model whether or not its key is present
MergeOneCountAll(acc, model) ==
    [map |-> IF IdentityKey(model) \notin DictKeys(acc.map)
             THEN DictSet(acc.map, IdentityKey(model), model) ELSE acc.map,
     added_count |-> acc.added_count + 1]

\* one iteration of the loop over fetched_models_list, on [map, added_count]
MergeOne(acc, model) ==
    IF IdentityKey(model) \notin DictKeys(acc.map)
    THEN [map |-> DictSet(acc.map, IdentityKey(model), model),
          added_count |-> acc.added_count + 1]
    ELSE acc

\* the loop over fetched_models_list
RECURSIVE MergeFetched(_, _, _)
MergeFetched(seed, models, n) ==
    IF n = 0 THEN [map |-> seed, added_count |-> 0]
    ELSE MergeOne(MergeFetched(seed, models, n - 1), models[n])

\* the sort key of final_model_list.sort
SortKey(m) == <<Lower(m.model_id), Lower(m.developer), Lower(m.provider)>>

\* an unstable sort: x goes before the elements of equal key
SortedInsertBeforeEqual(sorted, x) ==
    LET k == Cardinality({i \in DOMAIN sorted : TupleLess(SortKey(sorted[i]), SortKey(x))})
    IN  SubSeq(sorted, 1, k) \o <<x>> \o SubSeq(sorted, k + 1, Len(sorted))

\* list.sort is stable: x goes behind every element whose key is not greater
SortedInsert(sorted, x) ==
    LET k == Cardinality({i \in DOMAIN sorted : ~TupleLess(SortKey(x), SortKey(sorted[i]))})
    IN  SubSeq(sorted, 1, k) \o <<x>> \o SubSeq(sorted, k + 1, Len(sorted))

\* final_model_list.sort(key=...), on the first n elements
RECURSIVE SortModels(_, _)
SortModels(models, n) ==
    IF n = 0 THEN <<>>
    ELSE SortedInsert(SortModels(models, n - 1), models[n])

\* a merge that starts from an empty map instead of the existing models
CombineFetchedOnly(existing, fetched) ==
    LET merged == MergeFetched(<<>>, fetched, Len(fetched))
        values == DictValues(merged.map)
    IN  [final_model_list |-> SortModels(values, Len(values)),
         added_count |-> merged.added_count]

\* the combined, sorted list and the count of added models
Combine(existing, fetched) ==
    LET merged == MergeFetched(SeedExisting(existing, Len(existing)), fetched, Len(fetched))
        values == DictValues(merged.map)
    IN  [final_model_list |-> SortModels(values, Len(values)),
         added_count |-> merged.added_count]

(***************************************************************************)
(* The adapters.                                                           *)
(***************************************************************************)
\* the providers argument of fetch_all_models.  main() passes
\* [OpenAIProvider()] today and is written to take further adapters; the list
\* here holds one adapter that overrides public_models as OpenAIProvider does
\* and one that isolates failures as Provider.public_models does, so that the
\* loop over providers has a second iteration
providers == <<s_openai, s_openrouter>>

\* a raw vendor record whose normalize returns entry m
RawOk(m) == [normalizes |-> TRUE, entry |-> m]
\* a raw vendor record whose normalize raises
RawBad == [normalizes |-> FALSE]

Normalizes(r) == r.normalizes

\* what fetch_models and filter_public give: they raise (after the retries), or
\* a list of raw records
FetchFailed == [fetch |-> "fail", records |-> <<>>]
Fetched(records) == [fetch |-> "ok", records |-> records]

Raised == [raised |-> TRUE, models |-> <<>>]
Returned(models) == [raised |-> FALSE, models |-> models]

\* Provider.public_models and OpenRouterProvider.public_models
Provider_public_models(raw) ==
    IF raw.fetch = "fail" THEN Returned(<<>>)
    ELSE LET good == SelectSeq(raw.records, Normalizes)
         IN  Returned([i \in DOMAIN good |-> good[i].entry])

\* OpenAIProvider.public_models (AnthropicProvider and GeminiProvider alike)
OpenAIProvider_public_models(raw) ==
    IF raw.fetch = "fail" THEN Raised
    ELSE IF \E i \in DOMAIN raw.records : ~raw.records[i].normalizes THEN Raised
    ELSE Returned([i \in DOMAIN raw.records |-> raw.records[i].entry])

\* provider_instance.public_models()
public_models(slug, raw) ==
    IF slug = s_openrouter THEN Provider_public_models(raw)
    ELSE OpenAIProvider_public_models(raw)

\* a loop that puts the models of a provider in front of those collected so far
FetchOnePrepended(all_new, result) ==
    IF result.raised THEN all_new ELSE result.models \o all_new

\* the body of the loop of fetch_all_models on all_new_models
fetch_one(all_new, result) ==
    IF result.raised THEN all_new ELSE all_new \o result.models

(***************************************************************************)
(* Inputs.                                                                 *)
(***************************************************************************)
SeqsUpTo(S, n) == UNION {[1..k -> S] : k \in 0..n}

\* the registry files a first run can find
InitFiles ==
    {NoFile, FileWith(EmptyText), FileWith(GarbageText)}
    \cup {FileWith(Text("array", items, "lf")) : items \in SeqsUpTo(FileItems, MaxFileLen)}
    \cup {FileWith(Text("array", items, "crlf")) :
            items \in SeqsUpTo(FileItems, MaxFileLen) \ {<<>>}}

\* what the vendor of the adapter can answer with at most n records
RawOutcomes(slug, n) ==
    {FetchFailed}
    \cup {Fetched(rs) : rs \in SeqsUpTo({RawOk(m) : m \in EntriesOf(slug)} \cup {RawBad}, n)}

\* the number of raw records of the outcomes in bs
RECURSIVE RawCount(_, _)
RawCount(bs, n) ==
    IF n = 0 THEN 0 ELSE RawCount(bs, n - 1) + Len(bs[n].records)

(***************************************************************************)
(* retry(attempts, delay, backoff): the wrapper around one function.       *)
(***************************************************************************)
\* what one invocation of the wrapped function does: it returns a value, it
\* raises an Exception, or it raises a BaseException that is no Exception
Return(v) == [kind |-> "return", value |-> v]
Raise(e) == [kind |-> "raise", value |-> e]
RaiseBase(e) == [kind |-> "raise_base", value |-> e]
Outcomes ==
    {Return(v) : v \in {"success", "other"}}
        \cup {Raise(e) : e \in {"fail1", "fail2"}}
        \cup {RaiseBase("KeyboardInterrupt")}

\* the delay and backoff arguments
Delays == {0, 1}
Backoffs == {1, 2}

\* the wrapper before it is called
WrapperIdle ==
    [pc |-> "idle", attempts |-> 0, attempt |-> 0, delay |-> 0, current_delay |-> 0,
     backoff |-> 0,
     last_exception |-> <<>>, calls |-> <<>>, sleeps |-> <<>>, returned |-> <<>>,
     raised |-> <<>>]

\* a handler that keeps the first exception it has seen
KeepFirstException(last_exception, e) ==
    IF last_exception = <<>> THEN <<e>> ELSE last_exception

\* last_exception = e
KeepException(last_exception, e) == <<e>>

\* a delay that grows by adding the backoff
NextDelayAdded(current_delay, backoff) == current_delay + backoff

\* _current_delay *= backoff
NextDelay(current_delay, backoff) == current_delay * backoff

\* wrapper(): the locals are set; range(0) is empty, and raise None is a TypeError
wrapper_enter(attempts, delay, backoff) ==
    [WrapperIdle EXCEPT
        !.pc = IF attempts = 0 THEN "raised" ELSE "loop",
        !.attempts = attempts,
        !.delay = delay,
        !.current_delay = delay,
        !.backoff = backoff,
        !.raised = IF attempts = 0 THEN <<"TypeError">> ELSE <<>>]

\* one iteration of for attempt in range(_attempts), the function doing o
wrapper_attempt(w, o) ==
    LET called == [w EXCEPT !.calls = Append(w.calls, o)]
    IN  IF o.kind = "return"
        THEN [called EXCEPT !.pc = "returned", !.returned = <<o.value>>]
        ELSE IF o.kind = "raise_base"
        THEN [called EXCEPT !.pc = "raised", !.raised = <<o.value>>]
        ELSE LET caught == [called EXCEPT
                               !.last_exception = KeepException(w.last_exception, o.value)]
             IN  IF w.attempt = w.attempts - 1
                 THEN [caught EXCEPT !.pc = "raised", !.raised = caught.last_exception]
                 ELSE [caught EXCEPT
                          !.sleeps = Append(w.sleeps, w.current_delay),
                          !.current_delay = NextDelay(w.current_delay, w.backoff),
                          !.attempt = w.attempt + 1]

(***************************************************************************)
(* GeminiProvider.fetch_models: the paginated fetch (the function under    *)
(* the decorator).                                                         *)
(***************************************************************************)
\* what one page request gives: a page of models, with or without a
\* nextPageToken, or an exception (of requests, or another one)
PageOk(models, next) == [kind |-> "page", models |-> models, next |-> next]
PageFail(e) == [kind |-> "fail", error |-> e]
PageModels == UNION {[1..k -> {"m1", "m2"}] : k \in 0..MaxPageModels}
\* data.get("nextPageToken"): no token, or a token
NoToken == <<>>
PageTokens == {<<"t1">>, <<"t2">>}
PageOutcomes ==
    {PageOk(ms, next) : ms \in PageModels, next \in {NoToken} \cup PageTokens}
        \cup {PageFail(e) : e \in {"RequestException", "Exception"}}

\* fetch_models before it is called
GeminiIdle ==
    [pc |-> "idle", all_models |-> <<>>, page_token |-> NoToken, requests |-> <<>>,
     returned |-> <<>>, raised |-> <<>>]

\* all_models = [], page_token = None
gemini_enter == [GeminiIdle EXCEPT !.pc = "loop"]

\* one iteration of while True, the request giving o
gemini_page(g, o) ==
    LET asked == [g EXCEPT !.requests = Append(g.requests, o)]
    IN  IF o.kind = "page"
        THEN LET all == g.all_models \o o.models
             IN  IF o.next # NoToken
                 THEN [asked EXCEPT !.all_models = all, !.page_token = o.next]
                 ELSE [asked EXCEPT !.all_models = all, !.page_token = NoToken,
                                    !.pc = "returned", !.returned = <<all>>]
        ELSE IF g.all_models = <<>>
             THEN [asked EXCEPT !.pc = "raised", !.raised = <<o.error>>]
             ELSE [asked EXCEPT !.pc = "returned", !.returned = <<g.all_models>>]

(***************************************************************************)
(* build_atom_feed(new_models, repo_url, output_path).                     *)
(***************************************************************************)
\* the models build_atom_feed is given
FeedModels == {O1, O1d, O2, R1, R3}

\* date.toordinal() of a is less than that of b
DateLess(a, b) ==
    \/ a[1] < b[1]
    \/ a[1] = b[1] /\ a[2] < b[2]
    \/ a[1] = b[1] /\ a[2] = b[2] /\ a[3] < b[3]

\* the sort key (-m.release_date.toordinal(), m.model_id) of a is less than that of b
FeedKeyLess(a, b) ==
    \/ DateLess(b.release_date, a.release_date)
    \/ a.release_date = b.release_date /\ StrLess(a.model_id, b.model_id)

\* sorted(...) is stable: x goes after the models whose key is not greater
FeedInsert(sorted, x) ==
    LET before == {i \in DOMAIN sorted : ~FeedKeyLess(x, sorted[i])}
        k == IF before = {} THEN 0
             ELSE CHOOSE i \in before : \A j \in before : j <= i
    IN  SubSeq(sorted, 1, k) \o <<x>> \o SubSeq(sorted, k + 1, Len(sorted))

\* sorted(new_models, key=...) of the first n models
RECURSIVE sorted_models(_, _)
sorted_models(models, n) ==
    IF n = 0 THEN <<>> ELSE FeedInsert(sorted_models(models, n - 1), models[n])

\* the entry of one model: its id, its published date and its categories
feed_entry(m) ==
    [id |-> <<m.provider, m.developer, m.model_id>>, published |-> m.release_date,
     status |-> m.status]

\* fg.add_entry(): feedgen's default is order='prepend', the new entry
\* becomes the first entry of the feed
add_entry(entries, e) == <<e>> \o entries

\* for model in sorted_models: fg.add_entry() ..., for the first n models
RECURSIVE feed_entries(_, _)
feed_entries(models, n) ==
    IF n = 0 THEN <<>>
    ELSE add_entry(feed_entries(models, n - 1), feed_entry(models[n]))

NoFeed == [exists |-> FALSE, title |-> "", entries |-> <<>>]

\* the feed.xml that fg.atom_file writes
build_atom_feed(models) ==
    [exists |-> TRUE, title |-> "Model Registry Updates",
     entries |-> feed_entries(sorted_models(models, Len(models)), Len(models))]

(***************************************************************************)
(* Raw vendor records and the extractors of the adapters.  A raw record is *)
(* a function from its keys to values; a value is null, a str (a sequence  *)
(* of code points), an int, or a list.  An int that datetime cannot turn   *)
(* into a date is kept by the way fromtimestamp fails on it.               *)
(***************************************************************************)
Missing == [t |-> "missing"]
Null == [t |-> "null"]
StrVal(s) == [t |-> "str", v |-> s]
IntVal(n) == [t |-> "int", v |-> n]
\* an int whose year is outside 1..9999 (e.g. 10**12)
IntYearOutOfRange == [t |-> "int_year_out_of_range"]
\* an int outside the range of the platform's time_t (e.g. 10**19)
IntPlatformOutOfRange == [t |-> "int_platform_out_of_range"]
ListVal == [t |-> "list"]

\* record.get(key)
Get(record, key) == IF key \in DOMAIN record THEN record[key] ELSE Missing

\* record.get(key, "")
GetOrEmpty(record, key) == IF key \in DOMAIN record THEN record[key] ELSE StrVal(<<>>)

\* x is None
IsNone(x) == x.t \in {"missing", "null"}

\* bool(x) is False: None, "", 0
IsFalsy(x) ==
    \/ IsNone(x)
    \/ x.t = "str" /\ x.v = <<>>
    \/ x.t = "int" /\ x.v = 0

\* the strings of the code
s_slash == <<47>>
s_Z == <<90>>
s_utc_offset == <<43, 48, 48, 58, 48, 48>>
s_midnight == <<84, 48, 48, 58, 48, 48, 58, 48, 48>>
s_20 == <<50, 48>>
s_deprecated == <<100, 101, 112, 114, 101, 99, 97, 116, 101, 100>>
s_anthropic == <<97, 110, 116, 104, 114, 111, 112, 105, 99>>
s_google == <<103, 111, 111, 103, 108, 101>>
s_gemini == <<103, 101, 109, 105, 110, 105>>
s_meta == <<109, 101, 116, 97>>
s_mistral == <<109, 105, 115, 116, 114, 97, 108>>
s_cohere == <<99, 111, 104, 101, 114, 101>>
s_colon == <<58>>

\* t occurs in s at position p
OccursAt(s, t, p) == p >= 1 /\ p + Len(t) - 1 <= Len(s) /\ SubSeq(s, p, p + Len(t) - 1) = t
\* t in s
Contains(s, t) == \E p \in 1..(Len(s) + 1) : OccursAt(s, t, p)
\* s.startswith(t)
StartsWith(s, t) == OccursAt(s, t, 1)

\* s.replace(old, new), from position p on
RECURSIVE ReplaceFrom(_, _, _, _)
ReplaceFrom(s, old, new, p) ==
    IF p > Len(s) THEN <<>>
    ELSE IF OccursAt(s, old, p) THEN new \o ReplaceFrom(s, old, new, p + Len(old))
    ELSE <<s[p]>> \o ReplaceFrom(s, old, new, p + 1)

\* date(y, m, d): a date, or ValueError
date(y, m, d) == IF ValidDate(y, m, d) THEN Return(<<y, m, d>>) ELSE Raise("ValueError")

\* the date of a day number counted from 1970-01-01 (proleptic Gregorian)
civil_from_days(days) ==
    LET z == days + 719468
        era == z \div 146097
        doe == z - era * 146097
        yoe == (doe - doe \div 1460 + doe \div 36524 - doe \div 146096) \div 365
        doy == doe - (365 * yoe + yoe \div 4 - yoe \div 100)
        mp == (5 * doy + 2) \div 153
        d == doy - (153 * mp + 2) \div 5 + 1
        m == IF mp < 10 THEN mp + 3 ELSE mp - 9
        y == yoe + era * 400 + (IF m <= 2 THEN 1 ELSE 0)
    IN  <<y, m, d>>

\* datetime.datetime.fromtimestamp(x, tz=datetime.timezone.utc), as a date
fromtimestamp(x) ==
    IF x.t = "int" THEN Return(civil_from_days(x.v \div 86400))
    ELSE IF x.t = "int_year_out_of_range" THEN Raise("ValueError")
    ELSE IF x.t = "int_platform_out_of_range" THEN Raise("OverflowError")
    ELSE Raise("TypeError")

\* re.search(r"(\d{4}-\d{2}-\d{2})", s): the leftmost match, if any
search_iso(s) ==
    LET starts == {p \in 1..(Len(s) - 9) : IsoShape(SubSeq(s, p, p + 9))}
    IN  IF starts = {} THEN <<>>
        ELSE LET p == CHOOSE q \in starts : \A r \in starts : q <= r
             IN  <<SubSeq(s, p, p + 9)>>

\* re.search(r"-(\d{n})$", s): the n digits after the hyphen, if any
search_suffix(s, n) ==
    IF /\ Len(s) >= n + 1
       /\ SubSeq(s, Len(s) - n, Len(s) - n) = s_hyphen
       /\ AllDigits(SubSeq(s, Len(s) - n + 1, Len(s)))
    THEN <<SubSeq(s, Len(s) - n + 1, Len(s))>>
    ELSE <<>>

\* date.fromisoformat(s) for s of the shape YYYY-MM-DD
fromisoformat(s) ==
    date(ParseInt(SubSeq(s, 1, 4)), ParseInt(SubSeq(s, 6, 7)), ParseInt(SubSeq(s, 9, 10)))

\* datetime.datetime.fromisoformat(s).date(), for a str that is a date, a
\* date followed by T00:00:00+00:00, or no timestamp at all
datetime_fromisoformat(s) ==
    IF /\ Len(s) >= 10
       /\ IsoShape(SubSeq(s, 1, 10))
       /\ SubSeq(s, 11, Len(s)) \in {<<>>, s_midnight \o s_utc_offset}
    THEN fromisoformat(SubSeq(s, 1, 10))
    ELSE Raise("ValueError")

\* a rule that did not return: the code goes on to the next one
Pass == [kind |-> "pass"]
\* try: ... except excs: pass
Caught(o, excs) == IF o.kind = "raise" /\ o.value \in excs THEN Pass ELSE o
\* the next rule is tried when the one before did not return
OrElse(a, b) == IF a.kind = "pass" THEN b ELSE a

\* date(9999, 12, 31)
Sentinel == <<9999, 12, 31>>

\* OpenAIProvider.get_release_date, pattern 1
rule_iso(model_id) ==
    LET match == search_iso(model_id)
    IN  IF match = <<>> THEN Pass ELSE Caught(fromisoformat(match[1]), {"ValueError"})

\* pattern 2 (and GeminiProvider.get_release_date)
rule_yyyymmdd(model_id) ==
    LET match == search_suffix(model_id, 8)
    IN  IF match = <<>> THEN Pass
        ELSE Caught(date(ParseInt(SubSeq(match[1], 1, 4)), ParseInt(SubSeq(match[1], 5, 6)),
                         ParseInt(SubSeq(match[1], 7, 8))), {"ValueError"})

\* pattern 3
rule_yymmdd(model_id) ==
    LET match == search_suffix(model_id, 6)
    IN  IF match = <<>> THEN Pass
        ELSE Caught(date(ParseInt(s_20 \o SubSeq(match[1], 1, 2)),
                         ParseInt(SubSeq(match[1], 3, 4)),
                         ParseInt(SubSeq(match[1], 5, 6))), {"ValueError"})

\* pattern 4
rule_mmdd(model_id, created) ==
    LET match == search_suffix(model_id, 4)
    IN  IF match = <<>> \/ IsNone(created) THEN Pass
        ELSE LET at == fromtimestamp(created)
             IN  IF at.kind = "raise" THEN Caught(at, {"ValueError", "TypeError"})
                 ELSE Caught(date(at.value[1], ParseInt(SubSeq(match[1], 1, 2)),
                                  ParseInt(SubSeq(match[1], 3, 4))),
                             {"ValueError", "TypeError"})

\* the fallback to 'created' (and OpenRouterProvider.get_release_date)
rule_created(created) ==
    IF IsNone(created) THEN Pass
    ELSE Caught(fromtimestamp(created), {"TypeError", "ValueError"})

\* OpenAIProvider.get_release_date
OpenAI_get_release_date(record) ==
    LET id == GetOrEmpty(record, "id")
        created == Get(record, "created")
    IN  IF id.t # "str" THEN Raise("TypeError")
        ELSE OrElse(rule_iso(id.v),
             OrElse(rule_yyyymmdd(id.v),
             OrElse(rule_yymmdd(id.v),
             OrElse(rule_mmdd(id.v, created),
             OrElse(rule_created(created), Return(Sentinel))))))

\* AnthropicProvider.get_release_date
Anthropic_get_release_date(record) ==
    LET created_at == Get(record, "created_at")
    IN  IF IsFalsy(created_at) THEN Return(Sentinel)
        ELSE IF created_at.t # "str" THEN Raise("AttributeError")
        ELSE OrElse(Caught(datetime_fromisoformat(
                               ReplaceFrom(created_at.v, s_Z, s_utc_offset, 1)),
                           {"ValueError", "TypeError"}),
                    Return(Sentinel))

\* GeminiProvider.get_release_date
Gemini_get_release_date(record) ==
    LET name == GetOrEmpty(record, "name")
    IN  IF name.t # "str" THEN Raise("TypeError")
        ELSE OrElse(rule_yyyymmdd(name.v), Return(Sentinel))

\* OpenRouterProvider.get_release_date
OpenRouter_get_release_date(record) ==
    OrElse(rule_created(Get(record, "created")), Return(Sentinel))

\* the adapters of src/model_registry/providers
Adapters == {"openai", "anthropic", "gemini", "openrouter"}

\* adapter.get_release_date(record)
get_release_date(adapter, record) ==
    IF adapter = "openai" THEN OpenAI_get_release_date(record)
    ELSE IF adapter = "anthropic" THEN Anthropic_get_release_date(record)
    ELSE IF adapter = "gemini" THEN Gemini_get_release_date(record)
    ELSE OpenRouter_get_release_date(record)

(***************************************************************************)
(* normalize of the adapters.                                              *)
(***************************************************************************)
s_default_id == <<100, 101, 102, 97, 117, 108, 116, 45, 105, 100>>
s_default_developer == <<68, 101, 102, 97, 117, 108, 116, 32, 68, 101, 118, 101, 108, 111, 112, 101, 114>>
s_dummy == <<100, 117, 109, 109, 121>>

\* ModelEntry(provider=..., developer=..., model_id=..., release_date=...,
\* status=...): every field but the date is a str, model_id has min_length=1
Validate(provider, developer, model_id, release_date, status) ==
    IF /\ provider.t = "str" /\ developer.t = "str" /\ status.t = "str"
       /\ model_id.t = "str" /\ Len(model_id.v) >= 1
    THEN Return(ModelEntry(provider.v, developer.v, model_id.v, release_date, status.v))
    ELSE Raise("ValidationError")

\* model_record["id"]
get_id(record) == IF "id" \in DOMAIN record THEN Return(record["id"]) ELSE Raise("KeyError")

\* the arguments of ModelEntry(...) are evaluated in order: the first that
\* raises ends normalize
Normalized(provider, developer, model_id, release_date, status) ==
    IF developer.kind = "raise" THEN developer
    ELSE IF model_id.kind = "raise" THEN model_id
    ELSE IF release_date.kind = "raise" THEN release_date
    ELSE Validate(StrVal(provider), developer.value, model_id.value, release_date.value,
                  status)

\* OpenAIProvider.normalize
OpenAI_normalize(record) ==
    Normalized(s_openai, Return(StrVal(s_openai)), get_id(record),
               OpenAI_get_release_date(record), StrVal("active"))

\* AnthropicProvider.normalize
Anthropic_normalize(record) ==
    Normalized(s_anthropic, Return(StrVal(s_anthropic)), get_id(record),
               Anthropic_get_release_date(record), StrVal("active"))

\* GeminiProvider.normalize
Gemini_normalize(record) ==
    Normalized(s_gemini, Return(StrVal(s_google)), Return(GetOrEmpty(record, "name")),
               Gemini_get_release_date(record), StrVal("active"))

\* the part of s before the last "/"
BeforeLastSlash(s) ==
    LET p == CHOOSE q \in DOMAIN s :
                 /\ OccursAt(s, s_slash, q)
                 /\ \A r \in DOMAIN s : OccursAt(s, s_slash, r) => r <= q
    IN  SubSeq(s, 1, p - 1)

\* the part of s before the first "/"
BeforeSlash(s) ==
    LET p == CHOOSE q \in DOMAIN s :
                 /\ OccursAt(s, s_slash, q)
                 /\ \A r \in DOMAIN s : OccursAt(s, s_slash, r) => q <= r
    IN  SubSeq(s, 1, p - 1)

\* OpenRouterProvider.get_developer
OpenRouter_get_developer(record) ==
    LET id == GetOrEmpty(record, "id")
        name == GetOrEmpty(record, "name")
    IN  IF id.t # "str" THEN Raise("AttributeError")
        ELSE IF Contains(id.v, s_slash) THEN Return(StrVal(BeforeSlash(id.v)))
        ELSE IF name.t # "str" THEN Raise("AttributeError")
        ELSE IF StartsWith(Lower(name.v), s_anthropic \o s_colon) THEN Return(StrVal(s_anthropic))
        ELSE IF StartsWith(Lower(name.v), s_openai \o s_colon) THEN Return(StrVal(s_openai))
        ELSE IF StartsWith(Lower(name.v), s_google \o s_colon) THEN Return(StrVal(s_google))
        ELSE IF StartsWith(Lower(name.v), s_meta \o s_colon) THEN Return(StrVal(s_meta))
        ELSE IF StartsWith(Lower(name.v), s_mistral \o s_colon) THEN Return(StrVal(s_mistral))
        ELSE IF StartsWith(Lower(name.v), s_cohere \o s_colon) THEN Return(StrVal(s_cohere))
        ELSE Return(StrVal(s_unknown))

\* OpenRouterProvider.normalize
OpenRouter_normalize(record) ==
    LET description == GetOrEmpty(record, "description")
        name == GetOrEmpty(record, "name")
    IN  IF description.t # "str" \/ name.t # "str" THEN Raise("AttributeError")
        ELSE Normalized(s_openrouter, OpenRouter_get_developer(record), get_id(record),
                        OpenRouter_get_release_date(record),
                        IF \/ Contains(Lower(description.v), s_deprecated)
                           \/ Contains(Lower(name.v), s_deprecated)
                        THEN StrVal("deprecated") ELSE StrVal("active"))

\* the extractors of a subclass that inherits normalize (DummyProvider)
Dummy_get_model_id(record) ==
    Return(IF "model_id" \in DOMAIN record THEN record["model_id"] ELSE StrVal(s_default_id))
Dummy_get_developer(record) ==
    Return(IF "developer" \in DOMAIN record THEN record["developer"]
           ELSE StrVal(s_default_developer))
Dummy_get_release_date(record) ==
    LET date_str == Get(record, "release_date_str")
    IN  IF IsFalsy(date_str) THEN Return(<<2023, 1, 1>>)
        ELSE IF date_str.t # "str" THEN Raise("TypeError")
        ELSE IF IsoShape(date_str.v) THEN fromisoformat(date_str.v)
        ELSE Raise("ValueError")

\* Provider.normalize: the entry data is built in the order provider,
\* model_id, release_date, developer; status is passed only when the record
\* gives one
Provider_normalize(record) ==
    LET status_val == Get(record, "status")
        model_id == Dummy_get_model_id(record)
        release_date == Dummy_get_release_date(record)
        developer == Dummy_get_developer(record)
    IN  IF model_id.kind = "raise" THEN model_id
        ELSE IF release_date.kind = "raise" THEN release_date
        ELSE IF developer.kind = "raise" THEN developer
        ELSE Validate(StrVal(s_dummy), developer.value, model_id.value, release_date.value,
                      IF IsNone(status_val) THEN StrVal("active") ELSE status_val)

\* adapter.normalize(record)
normalize(adapter, record) ==
    IF adapter = "openai" THEN OpenAI_normalize(record)
    ELSE IF adapter = "anthropic" THEN Anthropic_normalize(record)
    ELSE IF adapter = "gemini" THEN Gemini_normalize(record)
    ELSE IF adapter = "openrouter" THEN OpenRouter_normalize(record)
    ELSE Provider_normalize(record)

(***************************************************************************)
(* The raw records the extractors are given.                               *)
(***************************************************************************)
\* a record of the fields that are given (a field that is Missing is no key)
Field(key, value) == IF value.t = "missing" THEN [k \in {} |-> Null] ELSE key :> value

\* years, months and days: a leap day, a day no month has in February, a
\* month and a year that no date has
Ys == {2024, 0}
Ms == {2, 13}
Ds == {15, 29, 30}

IsoTexts == {Digits4(y) \o s_hyphen \o Digits2(m) \o s_hyphen \o Digits2(d) :
                y \in Ys, m \in Ms, d \in Ds}
CompactTexts == {Digits4(y) \o Digits2(m) \o Digits2(d) : y \in Ys, m \in Ms, d \in Ds}
ShortTexts == {Digits2(y % 100) \o Digits2(m) \o Digits2(d) : y \in Ys, m \in Ms, d \in Ds}
MonthDayTexts == {Digits2(m) \o Digits2(d) : m \in Ms, d \in Ds}

\* model ids: with a date in one of the forms, with two of them, with none
IdTexts ==
    {s_gpt \o s_hyphen \o t :
        t \in IsoTexts \cup CompactTexts \cup ShortTexts \cup MonthDayTexts}
    \cup {s_gpt \o s_hyphen \o t \o s_hyphen \o Digits4(2024) \o Digits2(2) \o Digits2(15) :
            t \in IsoTexts}
    \cup {s_gpt \o s_hyphen \o Digits4(2024) \o s_hyphen \o Digits2(m) \o s_hyphen \o t :
            m \in Ms, t \in MonthDayTexts}
    \cup {s_gpt \o s_hyphen \o isoformat(<<9999, 12, 31>>),
          s_gpt \o s_hyphen \o Digits4(9999) \o Digits2(12) \o Digits2(31)}
    \cup {s_gpt, <<>>}

\* 'created': 2023-03-14, 2024-01-25 and 1969-12-31 as epoch seconds, and
\* values that are no date
CreatedValues ==
    {Missing, Null, IntVal(1678752000), IntVal(1706140800), IntVal(-1), StrVal(s_20),
     IntYearOutOfRange, IntPlatformOutOfRange}

StatusValues == {Missing, Null, StrVal("deprecated")}

\* the records OpenAI's extractors are given
OpenAIRecords ==
    {Field("id", id) @@ Field("created", created) @@ Field("status", status) :
        id \in {StrVal(t) : t \in IdTexts} \cup {Missing, Null, IntVal(5)},
        created \in CreatedValues, status \in StatusValues}

AnthropicRecords ==
    {Field("id", id) @@ Field("created_at", created_at) @@ Field("status", status) :
        id \in {StrVal(s_gpt), Missing, Null},
        created_at \in {StrVal(t \o s_midnight \o s_Z) : t \in IsoTexts}
                          \cup {StrVal(t) : t \in IsoTexts}
                          \cup {Missing, Null, StrVal(<<>>), StrVal(s_gpt), IntVal(0),
                                IntVal(5), ListVal},
        status \in StatusValues}

GeminiRecords ==
    {Field("name", name) @@ Field("status", status) :
        name \in {StrVal(s_gpt \o s_hyphen \o t) :
                     t \in CompactTexts \cup {Digits4(9999) \o Digits2(12) \o Digits2(31)}}
                    \cup {StrVal(s_gpt), StrVal(<<>>), Missing, Null, IntVal(5)},
        status \in StatusValues}

OpenRouterRecords ==
    {Field("id", id) @@ Field("name", name) @@ Field("description", description)
        @@ Field("created", created) @@ Field("status", status) :
        id \in {StrVal(s_openai \o s_slash \o s_gpt), StrVal(s_slash \o s_gpt), StrVal(s_gpt),
                StrVal(s_a \o s_slash \o s_gpt \o s_slash \o s_gpt), Missing, Null},
        name \in {StrVal(label \o s_colon \o s_gpt) :
                     label \in {s_anthropic, s_openai, s_google, s_meta, s_mistral, s_cohere,
                                s_OPENAI, s_gpt}}
                    \cup {StrVal(s_gpt \o s_deprecated), StrVal(s_gpt \o s_openai \o s_colon),
                          Missing, Null},
        description \in {StrVal(s_deprecated), StrVal(s_gpt), Missing, Null},
        created \in {Missing, IntVal(1678752000), IntPlatformOutOfRange},
        status \in StatusValues}

DummyRecords ==
    {Field("model_id", model_id) @@ Field("developer", developer)
        @@ Field("release_date_str", release_date_str) @@ Field("status", status) :
        model_id \in {StrVal(s_gpt), Missing},
        developer \in {StrVal(s_openai), Missing},
        release_date_str \in {StrVal(t) : t \in IsoTexts} \cup {Missing},
        status \in StatusValues \cup {StrVal("active"), IntVal(5)}}

RecordsOf(adapter) ==
    IF adapter = "openai" THEN OpenAIRecords
    ELSE IF adapter = "anthropic" THEN AnthropicRecords
    ELSE IF adapter = "gemini" THEN GeminiRecords
    ELSE IF adapter = "openrouter" THEN OpenRouterRecords
    ELSE DummyRecords

(***************************************************************************)
(* State.                                                                  *)
(***************************************************************************)
\* no extractor has been called
NoCall == [adapter |-> "", function |-> "", record |-> <<>>, result |-> Pass]

VARIABLES
    file,                       \* the registry file (MODELS_JSON_PATH)
    pc,                         \* where main() is: idle, fetch, merge, done, crashed
    existing_models_list,       \* main(): the loaded entries
    original_models_json_str,   \* main(): the text read for the comparison
    batches,                    \* the vendors' answers of this run, in list order
    public_results,             \* what public_models gave for each provider queried
    all_new_models,             \* fetch_all_models(): the entries collected so far
    final_model_list,           \* main(): the combined, sorted list
    added_count,                \* main(): the number of models added
    stdout,                     \* the summary lines printed by this run
    exit_code,                  \* the codes the process ended with (none while running)
    completed,                  \* a run has reached its end
    later_run,                  \* this run started after a run had reached its end
    replay,                     \* the vendors answer this run as they did the last
    feed_file,                  \* the feed document (feed.xml)
    wrapper,                    \* the frame of one call of a function under retry()
    gemini,                     \* the frame of one call of GeminiProvider.fetch_models
    new_models,                 \* the argument of one call of build_atom_feed
    call                        \* one call of an extractor or of normalize, and its result

\* the state of the functions that are modelled on their own
units == <<wrapper, gemini, new_models, call>>

vars == <<file, pc, existing_models_list, original_models_json_str, batches,
          public_results, all_new_models, final_model_list, added_count, stdout,
          exit_code, completed, later_run, replay, feed_file, units>>

\* no function is being run on its own
UnitsIdle ==
    /\ wrapper = WrapperIdle
    /\ gemini = GeminiIdle
    /\ new_models = <<>>
    /\ call = NoCall

Init ==
    /\ file \in InitFiles
    /\ pc = "idle"
    /\ existing_models_list = <<>>
    /\ original_models_json_str = EmptyText
    /\ batches = <<>>
    /\ public_results = <<>>
    /\ all_new_models = <<>>
    /\ final_model_list = <<>>
    /\ added_count = 0
    /\ stdout = <<>>
    /\ exit_code = <<>>
    /\ completed = FALSE
    /\ later_run = FALSE
    /\ replay = FALSE
    /\ feed_file = NoFeed
    /\ UnitsIdle

\* main() is not run: there is no registry file
MainIdle ==
    /\ file = NoFile
    /\ pc = "idle"
    /\ existing_models_list = <<>>
    /\ original_models_json_str = EmptyText
    /\ batches = <<>>
    /\ public_results = <<>>
    /\ all_new_models = <<>>
    /\ final_model_list = <<>>
    /\ added_count = 0
    /\ stdout = <<>>
    /\ exit_code = <<>>
    /\ completed = FALSE
    /\ later_run = FALSE
    /\ replay = FALSE
    /\ feed_file = NoFeed

main_vars == <<file, pc, existing_models_list, original_models_json_str, batches,
               public_results, all_new_models, final_model_list, added_count, stdout,
               exit_code, completed, later_run, replay>>

(***************************************************************************)
(* main().                                                                 *)
(***************************************************************************)
Resting == pc \in {"idle", "done", "crashed"}

\* main() up to fetch_all_models: the registry file is loaded and read
LoadStep ==
    /\ existing_models_list' = load_existing_models(file)
    /\ original_models_json_str' = IF file.exists THEN file.text ELSE EmptyText
    /\ public_results' = <<>>
    /\ all_new_models' = <<>>
    /\ final_model_list' = <<>>
    /\ added_count' = 0
    /\ stdout' = <<>>
    /\ exit_code' = <<>>
    /\ pc' = "fetch"
    /\ later_run' = completed
    /\ UNCHANGED <<file, completed, feed_file, units>>

\* a run whose vendors may answer anything
MainStart ==
    /\ Resting
    /\ LoadStep
    /\ batches' = <<>>
    /\ replay' = FALSE

\* a run that follows a finished run and whose vendors answer as in that run
MainStartAgain ==
    /\ pc = "done"
    /\ LoadStep
    /\ replay' = TRUE
    /\ UNCHANGED batches

\* OpenAIProvider() raises ValueError (no API key): main() ends with the exception
MainNoApiKey ==
    /\ Resting
    /\ pc' = "crashed"
    /\ exit_code' = <<1>>
    /\ stdout' = <<>>
    /\ existing_models_list' = <<>>
    /\ original_models_json_str' = EmptyText
    /\ batches' = <<>>
    /\ public_results' = <<>>
    /\ all_new_models' = <<>>
    /\ final_model_list' = <<>>
    /\ added_count' = 0
    /\ replay' = FALSE
    /\ later_run' = completed
    /\ UNCHANGED <<file, completed, feed_file, units>>

\* the provider the loop of fetch_all_models is at
idx == Len(public_results) + 1

\* a loop without the try/except: what public_models raises ends main()
after_provider_uncaught(i, result) ==
    IF result.raised THEN "crashed"
    ELSE IF i = Len(providers) THEN "merge" ELSE "fetch"

\* where main() goes after provider i gave result: the try/except of the loop
\* of fetch_all_models catches what public_models raises
after_provider(i, result) == IF i = Len(providers) THEN "merge" ELSE "fetch"

\* one iteration of the loop of fetch_all_models, the vendor answering raw
QueryProvider(raw) ==
    \E result \in {public_models(providers[idx], raw)} :
        /\ public_results' = Append(public_results, result)
        /\ all_new_models' = fetch_one(all_new_models, result)
        /\ pc' = after_provider(idx, result)
        /\ UNCHANGED <<file, existing_models_list, original_models_json_str,
                       final_model_list, added_count, stdout, exit_code, completed,
                       later_run, replay, feed_file, units>>

FetchProvider ==
    /\ pc = "fetch"
    /\ ~replay
    /\ \E raw \in RawOutcomes(providers[idx], MaxFetch - RawCount(batches, Len(batches))) :
        /\ batches' = Append(batches, raw)
        /\ QueryProvider(raw)

FetchProviderAgain ==
    /\ pc = "fetch"
    /\ replay
    /\ QueryProvider(batches[idx])
    /\ UNCHANGED batches

\* the summary lines
NoContentChanges(n) == [line |-> "No content changes", models |-> n]
UpdatedWith(n) == [line |-> "updated with", models |-> n]

\* [model.model_dump(mode='json') for model in models]
as_dicts(models) == [i \in DOMAIN models |-> model_dump(models[i])]

\* the comparison of main(): the old and the new text are equal and the file exists
NoChange(original, new_models_json_str, f) ==
    ReplaceCRLF(original) = ReplaceCRLF(new_models_json_str) /\ f.exists

\* main() from the merge to sys.exit
MainFinish ==
    /\ pc = "merge"
    /\ \E combined \in {Combine(existing_models_list, all_new_models)} :
        \E new_models_json_str \in {json_dumps(as_dicts(combined.final_model_list))} :
            /\ final_model_list' = combined.final_model_list
            /\ added_count' = combined.added_count
            /\ IF NoChange(original_models_json_str, new_models_json_str, file)
               THEN /\ stdout' = Append(stdout, NoContentChanges(Len(combined.final_model_list)))
                    /\ UNCHANGED file
               ELSE /\ file' = save_models(combined.final_model_list)
                    /\ stdout' = Append(stdout, UpdatedWith(Len(combined.final_model_list)))
    /\ exit_code' = <<0>>
    /\ pc' = "done"
    /\ completed' = TRUE
    /\ UNCHANGED <<existing_models_list, original_models_json_str, batches,
                   public_results, all_new_models, later_run, replay, feed_file, units>>

Next ==
    \/ MainStart
    \/ MainStartAgain
    \/ MainNoApiKey
    \/ FetchProvider
    \/ FetchProviderAgain
    \/ MainFinish

Spec == Init /\ [][Next]_vars

(***************************************************************************)
(* main() on a file system whose writes can fail.                          *)
(***************************************************************************)
\* save_models(path, models) when open() or json.dump() raises: the exception
\* is caught and logged.  The file is as it was (open failed), or it was
\* truncated by open(path, 'w') and holds nothing or a part of the text
save_models_failed(f) == {f, FileWith(EmptyText), FileWith(GarbageText)}

\* main() from the merge to sys.exit, the write of the file failing
MainFinishSaveFails ==
    /\ pc = "merge"
    /\ \E combined \in {Combine(existing_models_list, all_new_models)} :
        \E new_models_json_str \in {json_dumps(as_dicts(combined.final_model_list))} :
            /\ ~NoChange(original_models_json_str, new_models_json_str, file)
            /\ final_model_list' = combined.final_model_list
            /\ added_count' = combined.added_count
            /\ file' \in save_models_failed(file)
            /\ stdout' = Append(stdout, UpdatedWith(Len(combined.final_model_list)))
    /\ exit_code' = <<0>>
    /\ pc' = "done"
    /\ completed' = TRUE
    /\ UNCHANGED <<existing_models_list, original_models_json_str, batches,
                   public_results, all_new_models, later_run, replay, feed_file, units>>

\* one run
FirstRun == pc = "idle" /\ MainStart

FaultyNext ==
    \/ FirstRun
    \/ FetchProvider
    \/ MainFinish
    \/ MainFinishSaveFails

FaultySpec == Init /\ [][FaultyNext]_vars

(***************************************************************************)
(* A function under retry(), called on its own.                            *)
(***************************************************************************)
RetryInit == MainIdle /\ UnitsIdle

\* the decorated function is called
RetryCall ==
    /\ wrapper.pc \in {"idle", "returned", "raised"}
    /\ \E attempts \in 0..MaxAttempts : \E delay \in Delays : \E backoff \in Backoffs :
        wrapper' = wrapper_enter(attempts, delay, backoff)
    /\ UNCHANGED <<main_vars, feed_file, gemini, new_models, call>>

\* the wrapper invokes the function once and handles what it does
RetryAttempt ==
    /\ wrapper.pc = "loop"
    /\ \E o \in Outcomes : wrapper' = wrapper_attempt(wrapper, o)
    /\ UNCHANGED <<main_vars, feed_file, gemini, new_models, call>>

RetryNext == RetryCall \/ RetryAttempt

RetrySpec == RetryInit /\ [][RetryNext]_vars

(***************************************************************************)
(* GeminiProvider.fetch_models, called on its own.                         *)
(***************************************************************************)
GeminiInit == MainIdle /\ UnitsIdle

\* fetch_models is called
GeminiFetch ==
    /\ gemini.pc \in {"idle", "returned", "raised"}
    /\ gemini' = gemini_enter
    /\ UNCHANGED <<main_vars, feed_file, wrapper, new_models, call>>

\* one page is requested; the last request the bound allows gets no
\* nextPageToken
GeminiPage ==
    /\ gemini.pc = "loop"
    /\ \E o \in PageOutcomes :
        /\ (o.kind = "page" /\ o.next # NoToken) => Len(gemini.requests) + 1 < MaxPages
        /\ gemini' = gemini_page(gemini, o)
    /\ UNCHANGED <<main_vars, feed_file, wrapper, new_models, call>>

GeminiNext == GeminiFetch \/ GeminiPage

GeminiSpec == GeminiInit /\ [][GeminiNext]_vars

\* one page is requested, the vendor answering what it likes for as long as
\* it likes; the requests are recorded up to MaxPages, and a page that comes
\* with a nextPageToken after that holds no model
GeminiPageOn ==
    /\ gemini.pc = "loop"
    /\ \E o \in PageOutcomes :
        IF Len(gemini.requests) + 1 < MaxPages \/ o.kind = "fail" \/ o.next = NoToken
        THEN gemini' = gemini_page(gemini, o)
        ELSE /\ o.models = <<>>
             /\ gemini' = [gemini_page(gemini, o) EXCEPT !.requests = gemini.requests]
    /\ UNCHANGED <<main_vars, feed_file, wrapper, new_models, call>>

GeminiLoopNext == GeminiFetch \/ GeminiPageOn

\* the loop of fetch_models keeps running: it is a sequential program
GeminiLoopSpec == GeminiInit /\ [][GeminiLoopNext]_vars /\ WF_vars(GeminiPageOn)

(***************************************************************************)
(* build_atom_feed, called on its own.                                     *)
(***************************************************************************)
FeedInit == MainIdle /\ UnitsIdle

\* build_atom_feed(models, repo_url, output_path)
BuildAtomFeed ==
    /\ \E models \in SeqsUpTo(FeedModels, MaxFeed) :
        /\ new_models' = models
        /\ feed_file' = build_atom_feed(models)
    /\ UNCHANGED <<main_vars, wrapper, gemini, call>>

FeedNext == BuildAtomFeed

FeedSpec == FeedInit /\ [][FeedNext]_vars

(***************************************************************************)
(* The extractors and normalize of the adapters, called on their own.      *)
(***************************************************************************)
\* the calls that can be made: an adapter, or a subclass that inherits
\* Provider.normalize, and a raw record
Calls ==
    UNION {{[adapter |-> adapter, function |-> "", record |-> record, result |-> Pass] :
                record \in RecordsOf(adapter)} : adapter \in Adapters \cup {"dummy"}}

AdapterInit ==
    /\ MainIdle
    /\ wrapper = WrapperIdle
    /\ gemini = GeminiIdle
    /\ new_models = <<>>
    /\ call \in Calls

\* adapter.get_release_date(record)
GetReleaseDate ==
    /\ call.function = ""
    /\ call.adapter \in Adapters
    /\ call' = [call EXCEPT !.function = "get_release_date",
                            !.result = get_release_date(call.adapter, call.record)]
    /\ UNCHANGED <<main_vars, feed_file, wrapper, gemini, new_models>>

\* adapter.normalize(record)
Normalize ==
    /\ call.function = ""
    /\ call' = [call EXCEPT !.function = "normalize",
                            !.result = normalize(call.adapter, call.record)]
    /\ UNCHANGED <<main_vars, feed_file, wrapper, gemini, new_models>>

\* OpenRouterProvider.get_developer(record)
GetDeveloper ==
    /\ call.function = ""
    /\ call.adapter = "openrouter"
    /\ call' = [call EXCEPT !.function = "get_developer",
                            !.result = OpenRouter_get_developer(call.record)]
    /\ UNCHANGED <<main_vars, feed_file, wrapper, gemini, new_models>>

AdapterNext == GetReleaseDate \/ Normalize \/ GetDeveloper

AdapterSpec == AdapterInit /\ [][AdapterNext]_vars

(***************************************************************************)
(* save_models followed by load_existing_models.                           *)
(***************************************************************************)
\* valid entries: the first and the last date, a leap day, an empty
\* developer, a status other than the default
SavedEntries ==
    {ModelEntry(s_openai, developer, s_gpt, release_date, status) :
        developer \in {s_openai, s_empty},
        release_date \in {<<1, 1, 1>>, d_2023, <<2024, 2, 29>>, <<9999, 12, 31>>},
        status \in {"active", "deprecated"}}

\* a list of models is about to be saved; there is no file yet
RoundTripInit ==
    /\ file = NoFile
    /\ pc = "idle"
    /\ existing_models_list = <<>>
    /\ original_models_json_str = EmptyText
    /\ batches = <<>>
    /\ public_results = <<>>
    /\ all_new_models = <<>>
    /\ final_model_list \in SeqsUpTo(SavedEntries, MaxSaved)
    /\ added_count = 0
    /\ stdout = <<>>
    /\ exit_code = <<>>
    /\ completed = FALSE
    /\ later_run = FALSE
    /\ replay = FALSE
    /\ feed_file = NoFeed
    /\ UnitsIdle

\* save_models(MODELS_JSON_PATH, models)
SaveModels ==
    /\ pc = "idle"
    /\ file' = save_models(final_model_list)
    /\ pc' = "saved"
    /\ UNCHANGED <<existing_models_list, original_models_json_str, batches, public_results,
                   all_new_models, final_model_list, added_count, stdout, exit_code,
                   completed, later_run, replay, feed_file, units>>

\* load_existing_models(MODELS_JSON_PATH)
LoadModels ==
    /\ pc = "saved"
    /\ existing_models_list' = load_existing_models(file)
    /\ pc' = "loaded"
    /\ UNCHANGED <<file, original_models_json_str, batches, public_results,
                   all_new_models, final_model_list, added_count, stdout, exit_code,
                   completed, later_run, replay, feed_file, units>>

RoundTripNext == SaveModels \/ LoadModels

RoundTripSpec == RoundTripInit /\ [][RoundTripNext]_vars

(***************************************************************************)
(* The claims.                                                             *)
(***************************************************************************)
Range(s) == {s[i] : i \in DOMAIN s}

\* a and b have the same (developer, model_id, provider)
SameIdentity(a, b) ==
    a.developer = b.developer /\ a.model_id = b.model_id /\ a.provider = b.provider

\* b has the identity of a and another status or release_date
Conflicts(a, b) ==
    SameIdentity(a, b) /\ (a.status # b.status \/ a.release_date # b.release_date)

\* s without the occurrences of x
Without(s, x) == SelectSeq(s, LAMBDA y : y # x)

\* the entries of the registry file
FileHolds(m) == \E i \in DOMAIN file.text.items : file.text.items[i] = model_dump(m)

\* the run's output holds R as loaded, does not hold Rp, and is the output of
\* the same run without Rp among the fetched models
KeptOver(R, Rp) ==
    /\ R \in Range(final_model_list)
    /\ FileHolds(R)
    /\ Rp \notin Range(final_model_list)
    /\ final_model_list =
         Combine(existing_models_list, Without(all_new_models, Rp)).final_model_list

\* existing_models_list[i] is the last loaded entry of its identity
LastOfIdentity(i) ==
    \A j \in DOMAIN existing_models_list :
        j > i => ~SameIdentity(existing_models_list[j], existing_models_list[i])

\* C1 as stated: when a run has ended, every loaded record R is kept over every
\* fetched record of the same identity and another status or release_date
C1_EveryLoadedRecordKept ==
    pc = "done" =>
        \A i \in DOMAIN existing_models_list : \A Rp \in Range(all_new_models) :
            Conflicts(existing_models_list[i], Rp) => KeptOver(existing_models_list[i], Rp)

\* C1 amended: when a run has ended, every loaded record R that is the last entry
\* of its identity in the file is kept, with its field values, over every
\* fetched record of the same identity and another status or release_date, and
\* the output is the one of the run without that fetched record
C1_NeverOverwrites ==
    pc = "done" =>
        \A i \in DOMAIN existing_models_list : \A Rp \in Range(all_new_models) :
            (LastOfIdentity(i) /\ Conflicts(existing_models_list[i], Rp))
                => KeptOver(existing_models_list[i], Rp)

C1_Witness ==
    /\ pc = "done"
    /\ \E i \in DOMAIN existing_models_list : \E Rp \in Range(all_new_models) :
        /\ LastOfIdentity(i)
        /\ SameIdentity(existing_models_list[i], Rp)
        /\ existing_models_list[i].release_date # Rp.release_date

\* every item of the text of f is an item of the text of g
ItemsKept(f, g) ==
    /\ g.exists
    /\ \A i \in DOMAIN f.text.items : \E j \in DOMAIN g.text.items :
        g.text.items[j] = f.text.items[i]

\* C2: once a run has ended, no step removes or changes a record of the file:
\* every item of the file is an item of the file after the step
C2_AppendOnly == [][completed => ItemsKept(file, file')]_vars

C2_Witness ==
    /\ pc = "done"
    /\ later_run
    /\ Len(original_models_json_str.items) > 0
    /\ file.text # original_models_json_str
    /\ \E i \in DOMAIN public_results :
        public_results[i].raised \/ public_results[i].models = <<>>

\* C3: a run that follows a finished run and fetches what that run fetched adds
\* no model, prints "No content changes" and leaves the file as it read it
C3_Idempotent ==
    (pc = "done" /\ replay) =>
        /\ added_count = 0
        /\ stdout = <<NoContentChanges(Len(final_model_list))>>
        /\ file = FileWith(original_models_json_str)

C3_Witness ==
    /\ pc = "done"
    /\ replay
    /\ Len(all_new_models) = 2
    /\ \E i, j \in DOMAIN final_model_list :
        i < j /\ SortKey(final_model_list[i]) = SortKey(final_model_list[j])

\* C4: when a run has ended, every loaded and every fetched record has a record
\* of its own (developer, model_id, provider) in the output, in the list and in
\* the file: records that differ in one component do not displace one another
C4_FullTripleKey ==
    pc = "done" =>
        \A m \in Range(existing_models_list) \cup Range(all_new_models) :
            \E f \in Range(final_model_list) : SameIdentity(f, m) /\ FileHolds(f)

C4_Witness ==
    /\ pc = "done"
    /\ \E a, b, c \in Range(final_model_list) :
        /\ a.model_id = b.model_id /\ b.model_id = c.model_id
        /\ a.developer = b.developer /\ a.provider # b.provider
        /\ b.provider = c.provider /\ b.developer # c.developer


\* the key the specification sorts by
DeveloperFirstKey(item) ==
    <<Lower(item.developer), Lower(item.model_id), Lower(item.provider)>>

\* C5 as stated: the records of a file that a run has written are strictly
\* ascending by (developer, model_id, provider), each lowercased
C5_SortedByDeveloper ==
    (pc = "done" /\ stdout = <<UpdatedWith(Len(final_model_list))>>) =>
        \A i, j \in DOMAIN file.text.items :
            i < j => TupleLess(DeveloperFirstKey(file.text.items[i]),
                               DeveloperFirstKey(file.text.items[j]))

\* the text of the serialized list
Serialization(models) == Text("array", [i \in DOMAIN models |-> model_dump(models[i])], "lf")

\* the two texts are equal once their line endings are
EqualUpToLineEndings(a, b) == a.json = b.json /\ a.items = b.items

\* C6: the step that ends a run leaves the file as it is and prints "No content
\* changes" exactly when the file exists and its text equals, up to CR LF, the
\* serialization of the final list; otherwise the file becomes that
\* serialization and "updated with" is printed
C6_ChangeDetection ==
    [][pc = "merge" =>
        IF file.exists /\ EqualUpToLineEndings(file.text, Serialization(final_model_list'))
        THEN file' = file /\ stdout' = <<NoContentChanges(Len(final_model_list'))>>
        ELSE /\ file' = FileWith(Serialization(final_model_list'))
             /\ stdout' = <<UpdatedWith(Len(final_model_list'))>>]_vars

C6_Witness ==
    /\ pc = "done"
    /\ stdout = <<NoContentChanges(Len(final_model_list))>>
    /\ file.text.eol = "crlf"
    /\ Len(all_new_models) > 0

\* C7 as stated: every run that has ended has printed exactly one summary line,
\* and when the file was written the line gives the number of records of the
\* final list, which are the records of the file
C7_OneSummaryLine ==
    pc \in {"done", "crashed"} =>
        /\ Len(stdout) = 1
        /\ stdout[1].line \in {"No content changes", "updated with"}
        /\ stdout[1].line = "updated with" =>
            /\ stdout[1].models = Len(final_model_list)
            /\ file = FileWith(Serialization(final_model_list))

\* m has a record of its identity in the final list and in the file
Merged(m) == \E f \in Range(final_model_list) : SameIdentity(f, m) /\ FileHolds(f)

\* C8: a run that has queried a provider does not end in an exception; when it
\* has ended, every provider of the list was queried, whatever the providers
\* before it raised or returned, the loaded records and the records of every
\* provider that returned are in the final list and in the file, and the exit
\* code is 0
C8_ProviderFailureIsolated ==
    /\ pc = "crashed" => public_results = <<>>
    /\ pc = "done" =>
        /\ Len(public_results) = Len(providers)
        /\ exit_code = <<0>>
        /\ \A m \in Range(existing_models_list) : Merged(m)
        /\ \A i \in DOMAIN public_results :
            \A m \in Range(public_results[i].models) : Merged(m)

C8_Witness ==
    /\ pc = "done"
    /\ public_results[1].raised
    /\ public_results[2].models # <<>>
    /\ existing_models_list # <<>>
    /\ added_count > 0

\* the entries of the raw records that normalize, in their order
NormalizedOf(records) ==
    LET good == SelectSeq(records, Normalizes)
    IN  [i \in DOMAIN good |-> good[i].entry]

\* C9 as stated: for every adapter, public_models returns the entries of the
\* raw records whose normalization succeeds, in their order, whether or not
\* the normalization of another record raises
C9_NormalizeFailureIsolated ==
    \A i \in DOMAIN public_results :
        batches[i].fetch = "ok" =>
            public_results[i] = Returned(NormalizedOf(batches[i].records))

\* C10 as stated: for every adapter, public_models returns an empty list, and
\* does not raise, when the fetch stage fails
C10_FetchFailureGivesEmpty ==
    \A i \in DOMAIN public_results :
        batches[i].fetch = "fail" => public_results[i] = Returned(<<>>)


\* every invocation of the calls so far raised
AllRaised(calls) == \A i \in DOMAIN calls : calls[i].kind # "return"

\* C11: a wrapper given n >= 1 attempts invokes the function at most n times,
\* and at least once before it ends; no invocation follows one that returned,
\* and the wrapper then returns that value; when n invocations have all raised
\* the wrapper has raised the exception of the n-th
C11_RetryWrapper ==
    wrapper.attempts >= 1 =>
        /\ Len(wrapper.calls) <= wrapper.attempts
        /\ wrapper.pc \in {"returned", "raised"} => Len(wrapper.calls) >= 1
        /\ \A i \in DOMAIN wrapper.calls :
            wrapper.calls[i].kind = "return" =>
                /\ i = Len(wrapper.calls)
                /\ wrapper.pc = "returned"
                /\ wrapper.returned = <<wrapper.calls[i].value>>
        /\ wrapper.pc = "returned" => wrapper.calls[Len(wrapper.calls)].kind = "return"
        /\ (Len(wrapper.calls) = wrapper.attempts /\ AllRaised(wrapper.calls)) =>
                /\ wrapper.pc = "raised"
                /\ wrapper.raised = <<wrapper.calls[wrapper.attempts].value>>

C11_Witness ==
    /\ wrapper.pc = "raised"
    /\ wrapper.attempts = 3
    /\ Len(wrapper.calls) = 3
    /\ wrapper.calls[1] = Raise("fail1")
    /\ wrapper.calls[3] = Raise("fail2")


\* the models of the first n page requests, in order
RECURSIVE ModelsOfPages(_, _)
ModelsOfPages(requests, n) ==
    IF n = 0 THEN <<>>
    ELSE ModelsOfPages(requests, n - 1)
            \o (IF requests[n].kind = "page" THEN requests[n].models ELSE <<>>)

\* C12 as stated: when a page request fails after the first page was
\* retrieved, fetch_models has returned the models of the pages retrieved so
\* far; it has raised only when its first page request failed
C12_PartialPagesReturned ==
    /\ \A n \in DOMAIN gemini.requests :
        (n >= 2 /\ gemini.requests[n].kind = "fail") =>
            /\ gemini.pc = "returned"
            /\ gemini.returned = <<ModelsOfPages(gemini.requests, n)>>
    /\ gemini.pc = "raised" =>
        /\ Len(gemini.requests) = 1
        /\ gemini.requests[1].kind = "fail"


\* the models of final_model_list that the run added
AddedModels ==
    SelectSeq(final_model_list, LAMBDA m : m \notin Range(existing_models_list))

\* s and t hold the same elements the same number of times
SameBag(s, t) ==
    /\ Len(s) = Len(t)
    /\ \A x \in Range(s) \cup Range(t) :
        Cardinality({i \in DOMAIN s : s[i] = x}) = Cardinality({i \in DOMAIN t : t[i] = x})

\* C13 as stated: when a run that has added a model has ended, the feed
\* document exists and its entries are those of the added models
C13_FeedRegenerated ==
    (pc = "done" /\ added_count > 0) =>
        /\ feed_file.exists
        /\ SameBag(feed_file.entries, [i \in DOMAIN AddedModels |-> feed_entry(AddedModels[i])])

\* C14 as stated: the document written for new_models has the feed's title,
\* holds one entry for each model, and its entries are in the order of
\* release_date descending, then model_id ascending
C14_FeedEntriesOrdered ==
    feed_file.exists =>
        /\ feed_file.title = "Model Registry Updates"
        /\ SameBag(feed_file.entries, [i \in DOMAIN new_models |-> feed_entry(new_models[i])])
        /\ \A i, j \in DOMAIN feed_file.entries :
            i < j =>
                \/ DateLess(feed_file.entries[j].published, feed_file.entries[i].published)
                \/ /\ feed_file.entries[j].published = feed_file.entries[i].published
                   /\ ~StrLess(feed_file.entries[j].id[3], feed_file.entries[i].id[3])


\* the value has no digit that a date could be read from
NoDigits(x) == IsNone(x) \/ (x.t = "str" /\ \A i \in DOMAIN x.v : ~IsDigit(x.v[i]))

\* the record gives no date: none of its fields that an adapter reads a date
\* from holds a digit or a number
Dateless(record) ==
    \A key \in {"id", "name", "created", "created_at"} : NoDigits(Get(record, key))

\* C15 as stated: get_release_date of every adapter returns a calendar date
\* for every raw record, and returns 9999-12-31 when the record gives no date
C15_ReleaseDateNeverRaises ==
    call.function = "get_release_date" =>
        /\ call.result.kind = "return"
        /\ ValidDate(call.result.value[1], call.result.value[2], call.result.value[3])
        /\ Dateless(call.record) => call.result.value = Sentinel

\* the dates a text of digits gives when it is read as year, month and day
DateOfDigits(year, month, day) ==
    IF ValidDate(year, month, day) THEN {<<year, month, day>>} ELSE {}

\* the digits that end the id after a hyphen, when it ends so
Trailing(id, n) ==
    IF Len(id) > n /\ id[Len(id) - n] = s_hyphen[1]
          /\ AllDigits(SubSeq(id, Len(id) - n + 1, Len(id)))
    THEN {SubSeq(id, Len(id) - n + 1, Len(id))}
    ELSE {}

\* the date of the 'created' field, when it is an epoch that has one
CreatedDate(created) ==
    IF created.t = "int" THEN {civil_from_days(created.v \div 86400)} ELSE {}

\* the dates each rule of the specification yields for an id and a 'created'
Rule1(id) ==
    UNION {DateOfDigits(ParseInt(SubSeq(id, p, p + 3)), ParseInt(SubSeq(id, p + 5, p + 6)),
                        ParseInt(SubSeq(id, p + 8, p + 9))) :
              p \in {q \in 1..(Len(id) - 9) : IsoShape(SubSeq(id, q, q + 9))}}
Rule2(id) ==
    UNION {DateOfDigits(ParseInt(SubSeq(t, 1, 4)), ParseInt(SubSeq(t, 5, 6)),
                        ParseInt(SubSeq(t, 7, 8))) : t \in Trailing(id, 8)}
Rule3(id) ==
    UNION {DateOfDigits(2000 + ParseInt(SubSeq(t, 1, 2)), ParseInt(SubSeq(t, 3, 4)),
                        ParseInt(SubSeq(t, 5, 6))) : t \in Trailing(id, 6)}
Rule4(id, created) ==
    UNION {DateOfDigits(c[1], ParseInt(SubSeq(t, 1, 2)), ParseInt(SubSeq(t, 3, 4))) :
              t \in Trailing(id, 4), c \in CreatedDate(created)}

\* the dates of the first rule, in the order of the specification, that yields one
ByPrecedence(id, created) ==
    IF Rule1(id) # {} THEN Rule1(id)
    ELSE IF Rule2(id) # {} THEN Rule2(id)
    ELSE IF Rule3(id) # {} THEN Rule3(id)
    ELSE IF Rule4(id, created) # {} THEN Rule4(id, created)
    ELSE IF CreatedDate(created) # {} THEN CreatedDate(created)
    ELSE {Sentinel}

\* C16 as stated: for a record whose id is a str, OpenAI's get_release_date
\* returns the date of the first rule that matches and yields a valid date
C16_OpenAIPrecedence ==
    (/\ call.function = "get_release_date"
     /\ call.adapter = "openai"
     /\ GetOrEmpty(call.record, "id").t = "str") =>
        /\ call.result.kind = "return"
        /\ call.result.value
              \in ByPrecedence(GetOrEmpty(call.record, "id").v, Get(call.record, "created"))

\* C17 as stated: the entry normalize returns has the status the raw record
\* gives, and "active" when the record gives none
C17_StatusFromRecord ==
    (call.function = "normalize" /\ call.result.kind = "return") =>
        call.result.value.status =
            (IF IsNone(Get(call.record, "status")) THEN "active"
             ELSE Get(call.record, "status").v)


\* the entries of the JSON objects that validate, one by one and in order
RECURSIVE EntriesKept(_)
EntriesKept(items) ==
    IF items = <<>> THEN <<>>
    ELSE IF Len(Head(items).model_id) >= 1 /\ IsDateText(Head(items).release_date)
         THEN <<EntryOfItem(Head(items))>> \o EntriesKept(Tail(items))
         ELSE EntriesKept(Tail(items))

\* the text main() read at its start is no JSON
Unparseable(text) == text.json # "array"

\* C18: once the file is loaded the run goes on with every valid entry of the
\* file and without the malformed ones, with no entry when the file is no
\* JSON, and a run that found such a file ends by writing a fresh file
C18_LoadNeverAborts ==
    /\ pc \in {"fetch", "merge", "done"} =>
          existing_models_list =
              (IF Unparseable(original_models_json_str) THEN <<>>
               ELSE EntriesKept(original_models_json_str.items))
    /\ (pc = "done" /\ Unparseable(original_models_json_str)) =>
          /\ file = FileWith(json_dumps(as_dicts(final_model_list)))
          /\ stdout[Len(stdout)] = UpdatedWith(Len(final_model_list))
          /\ exit_code = <<0>>

\* a run that found a file with a malformed entry among valid ones has ended
C18_Witness ==
    /\ pc = "done"
    /\ original_models_json_str.json = "array"
    /\ \E i \in DOMAIN original_models_json_str.items :
          Len(original_models_json_str.items[i].model_id) = 0
    /\ existing_models_list # <<>>
    /\ file.exists

\* C19 as stated: main() ends with exit code 0 (serializing the final list
\* does not fail in this model)
C19_ExitCodeZero ==
    pc \in {"done", "crashed"} => exit_code = <<0>>


\* C20: the entries loaded from the file that save_models wrote are the
\* entries that were saved, equal in provider, developer, model_id,
\* release_date and status, and as many
C20_RoundTrip ==
    pc = "loaded" => existing_models_list = final_model_list

\* entries with the first date there is and with a status other than the
\* default have been saved and loaded
C20_Witness ==
    /\ pc = "loaded"
    /\ \E i \in DOMAIN final_model_list : final_model_list[i].release_date = <<1, 1, 1>>
    /\ \E i \in DOMAIN final_model_list : final_model_list[i].status = "deprecated"
    /\ file.exists


\* a provider has been queried in this step
Queried == public_results' # public_results /\ public_results' # <<>>

\* C21: the file is read when the run starts, before any provider is queried;
\* each query is of the next provider of the list and its models are put
\* behind those collected so far; the merge starts when every provider of the
\* list has been queried, and from then on none is; the file changes only in
\* the last step of a run
C21_Sequential ==
    [][/\ (pc # "fetch" /\ pc' = "fetch") =>
              /\ public_results' = <<>> /\ all_new_models' = <<>>
              /\ original_models_json_str' = (IF file.exists THEN file.text ELSE EmptyText)
              /\ file' = file
       /\ Queried =>
              /\ pc = "fetch"
              /\ Len(public_results') = Len(public_results) + 1
              /\ SubSeq(public_results', 1, Len(public_results)) = public_results
              /\ public_results'[Len(public_results')] =
                    public_models(providers[Len(public_results')],
                                  batches'[Len(public_results')])
              /\ all_new_models' =
                    all_new_models \o public_results'[Len(public_results')].models
       /\ pc' = "merge" => Len(public_results') = Len(providers)
       /\ pc = "merge" =>
              /\ public_results' = public_results /\ all_new_models' = all_new_models
              /\ pc' = "done"
       /\ file' # file => pc = "merge" /\ pc' = "done"
      ]_vars

\* a run has ended in which both providers gave models and the file was written
C21_Witness ==
    /\ pc = "done"
    /\ Len(public_results) = Len(providers)
    /\ \A i \in DOMAIN public_results : public_results[i].models # <<>>
    /\ stdout[Len(stdout)] = UpdatedWith(Len(final_model_list))


\* C22 as stated: the entry an adapter's normalize returns has a provider, a
\* developer and a model_id that are not empty
C22_NonEmptyFields ==
    (call.function = "normalize" /\ call.result.kind = "return") =>
        /\ Len(call.result.value.provider) >= 1
        /\ Len(call.result.value.developer) >= 1
        /\ Len(call.result.value.model_id) >= 1


\* b to the power k
RECURSIVE Pow(_, _)
Pow(b, k) == IF k = 0 THEN 1 ELSE b * Pow(b, k - 1)

\* the invocations that raised an Exception
Failed(calls) == {i \in DOMAIN calls : calls[i].kind = "raise"}

\* C23: the k-th wait lasts delay * backoff^(k-1); while the loop goes on
\* every invocation made has failed and has been followed by a wait; when
\* the call has ended, every invocation but the last one has failed and has
\* been followed by a wait, and nothing else has: f waits for a call that
\* succeeds after f failures, n-1 waits for a call that fails n times
C23_RetryBackoff ==
    (wrapper.pc # "idle" /\ wrapper.attempts >= 1) =>
        /\ \A k \in DOMAIN wrapper.sleeps :
              wrapper.sleeps[k] = wrapper.delay * Pow(wrapper.backoff, k - 1)
        /\ wrapper.pc = "loop" =>
              /\ Failed(wrapper.calls) = DOMAIN wrapper.calls
              /\ Len(wrapper.sleeps) = Len(wrapper.calls)
        /\ wrapper.pc \in {"returned", "raised"} =>
              /\ 1..(Len(wrapper.calls) - 1) \subseteq Failed(wrapper.calls)
              /\ Len(wrapper.sleeps) = Len(wrapper.calls) - 1
        /\ (wrapper.pc = "raised" /\ Failed(wrapper.calls) = DOMAIN wrapper.calls) =>
              /\ Len(wrapper.calls) = wrapper.attempts
              /\ Len(wrapper.sleeps) = wrapper.attempts - 1

\* a call with a delay of 1 and a backoff of 2 has waited twice and then
\* succeeded
C23_Witness ==
    /\ wrapper.pc = "returned"
    /\ wrapper.delay = 1 /\ wrapper.backoff = 2
    /\ wrapper.sleeps = <<1, 2>>
    /\ Len(wrapper.calls) = 3


\* C24 as stated: fetch_models ends, with a return or an exception, whatever
\* the vendor answers
C24_FetchTerminates ==
    (gemini.pc = "loop") ~> (gemini.pc \in {"returned", "raised"})


\* the date the text of 'created_at' gives, when it gives one
CreatedAtDate(created_at) ==
    IF created_at.t = "str"
          /\ datetime_fromisoformat(ReplaceFrom(created_at.v, s_Z, s_utc_offset, 1)).kind
                = "return"
    THEN {datetime_fromisoformat(ReplaceFrom(created_at.v, s_Z, s_utc_offset, 1)).value}
    ELSE {}

\* the dates the patterns and the timestamps of the adapter give for the record
DatesFound(adapter, record) ==
    IF adapter = "openai"
    THEN LET id == GetOrEmpty(record, "id").v
             created == Get(record, "created")
         IN  Rule1(id) \cup Rule2(id) \cup Rule3(id) \cup Rule4(id, created)
                \cup CreatedDate(created)
    ELSE IF adapter = "anthropic" THEN CreatedAtDate(Get(record, "created_at"))
    ELSE IF adapter = "gemini" THEN Rule2(GetOrEmpty(record, "name").v)
    ELSE CreatedDate(Get(record, "created"))

\* C25 as stated: when get_release_date returns 9999-12-31, no pattern and no
\* timestamp of the record gave a date
C25_SentinelMeansUnknown ==
    (/\ call.function = "get_release_date"
     /\ call.result.kind = "return"
     /\ call.result.value = Sentinel) =>
        DatesFound(call.adapter, call.record) = {}


\* the labels get_developer knows, each with the developer it stands for
KnownLabels == {s_anthropic, s_openai, s_google, s_meta, s_mistral, s_cohere}

\* the developer the stated precedence gives for an id and a name
DeveloperByPrecedence(id, name) ==
    IF \E p \in DOMAIN id : id[p] = s_slash[1]
    THEN SubSeq(id, 1, (CHOOSE p \in DOMAIN id :
                           id[p] = s_slash[1] /\ \A q \in 1..(p - 1) : id[q] # s_slash[1]) - 1)
    ELSE IF \E label \in KnownLabels :
               Len(name) > Len(label) /\ Lower(SubSeq(name, 1, Len(label) + 1)) = label \o s_colon
    THEN CHOOSE label \in KnownLabels :
               Len(name) > Len(label) /\ Lower(SubSeq(name, 1, Len(label) + 1)) = label \o s_colon
    ELSE s_unknown

\* C26: for a record whose id and name are strings (a field that is absent
\* counts as ""), get_developer returns the part of the id before its first
\* "/", else the developer of the known label the name begins with, else
\* "unknown"
C26_DeveloperPrecedence ==
    (/\ call.function = "get_developer"
     /\ GetOrEmpty(call.record, "id").t = "str"
     /\ GetOrEmpty(call.record, "name").t = "str") =>
        call.result = Return(StrVal(DeveloperByPrecedence(GetOrEmpty(call.record, "id").v,
                                                         GetOrEmpty(call.record, "name").v)))

\* get_developer has found the developer in a name whose label is in capitals
C26_Witness ==
    /\ call.function = "get_developer"
    /\ GetOrEmpty(call.record, "id") = StrVal(s_gpt)
    /\ GetOrEmpty(call.record, "name") = StrVal(s_OPENAI \o s_colon \o s_gpt)
    /\ call.result = Return(StrVal(s_openai))


\* the identity triple of a record
Triple(m) == <<m.developer, m.model_id, m.provider>>

\* the identities of the records of a list
Triples(models) == {Triple(models[i]) : i \in DOMAIN models}

\* C27: when a run has ended, the count of added models is the number of
\* identities among the fetched records that no loaded record has, the final
\* list has one record for each loaded identity and one for each of those, and
\* of the fetched records of such an identity the first one is in the final list
C27_AddedCount ==
    pc = "done" =>
        /\ added_count =
              Cardinality(Triples(all_new_models) \ Triples(existing_models_list))
        /\ Len(final_model_list) = Cardinality(Triples(existing_models_list)) + added_count
        /\ \A i \in DOMAIN all_new_models :
              (/\ Triple(all_new_models[i]) \notin Triples(existing_models_list)
               /\ \A j \in 1..(i - 1) :
                     Triple(all_new_models[j]) # Triple(all_new_models[i])) =>
                  /\ all_new_models[i] \in Range(final_model_list)
                  /\ \A k \in DOMAIN final_model_list :
                        Triple(final_model_list[k]) = Triple(all_new_models[i]) =>
                            final_model_list[k] = all_new_models[i]

\* a run has ended that fetched two different records of one identity that
\* no loaded record has, and a record of an identity that was loaded
C27_Witness ==
    /\ pc = "done"
    /\ \E i, j \in DOMAIN all_new_models :
          /\ i < j
          /\ Triple(all_new_models[i]) = Triple(all_new_models[j])
          /\ all_new_models[i] # all_new_models[j]
          /\ Triple(all_new_models[i]) \notin Triples(existing_models_list)
    /\ existing_models_list # <<>>
    /\ added_count = 1


\* the run that has ended wrote the file
Wrote == pc = "done" /\ stdout[Len(stdout)] = UpdatedWith(Len(final_model_list))

\* two JSON objects of the same developer, model_id and provider
SameTriple(a, b) ==
    a.developer = b.developer /\ a.model_id = b.model_id /\ a.provider = b.provider

\* C28: in the file a run has written no two records have the same
\* developer, model_id and provider
C28_NoDuplicateIdentity ==
    Wrote =>
        \A i, j \in DOMAIN file.text.items :
            i # j => ~SameTriple(file.text.items[i], file.text.items[j])

\* a run has written the file after it loaded two records of one identity
\* and fetched two records of another
C28_Witness ==
    /\ Wrote
    /\ \E i, j \in DOMAIN existing_models_list :
          i < j /\ SameTriple(existing_models_list[i], existing_models_list[j])
    /\ \E i, j \in DOMAIN all_new_models :
          i < j /\ SameTriple(all_new_models[i], all_new_models[j])
    /\ Len(file.text.items) >= 2


\* C29 as stated: when the run that has ended reported "updated with N
\* models", the file holds the serialization of the final list, which has N
\* records
C29_UpdateReportedMeansWritten ==
    (pc = "done" /\ stdout # <<>> /\ stdout[Len(stdout)].line = "updated with") =>
        /\ stdout[Len(stdout)].models = Len(final_model_list)
        /\ file = FileWith(json_dumps(as_dicts(final_model_list)))


\* the orders in which the elements of a list can come
Orders(s) == {[i \in DOMAIN s |-> s[f[i]]] : f \in Permutations(DOMAIN s)}

\* the lists fetch_all_models can return for the same records: the providers
\* listed in either order, each returning its records in any order
Refetched ==
    UNION {{a \o b, b \o a} : a \in Orders(public_results[1].models),
                              b \in Orders(public_results[2].models)}

\* C30 as stated: the final list of a run that has ended is the final list
\* for every order of the providers and every order of their records
C30_OrderIndependent ==
    pc = "done" =>
        \A fetched \in Refetched :
            Combine(existing_models_list, fetched).final_model_list = final_model_list


=============================================================================
